---------------------------- MODULE Spec2Model ----------------------------
(***************************************************************************)
(* A model of seller.py: the synchronisation of the prices and stock       *)
(* quantities of a vendor's inventory file into a marketplace catalogue.   *)
(*                                                                         *)
(* Texts that the program inspects character by character (quantity and    *)
(* price cells) are sequences of one-character strings.  Offer ids and     *)
(* record codes are only ever compared for equality, so they are strings.  *)
(* A record of the inventory file has the fields code ("Код"), quantity    *)
(* ("Количество") and price ("Цена"); its cells are texts (str() of a text *)
(* is the text itself), numeric cells are not modelled.                    *)
(***************************************************************************)
EXTENDS Integers, Sequences, FiniteSets, TLC

(***************************************************************************)
(* Bounds of the model.                                                    *)
(***************************************************************************)
MaxOffers == 2
MaxRecords == 2
MaxPages == 2
MaxBatches == 2
MaxLen == 5
MaxChunk == 3
MaxText == 4

(***************************************************************************)
(* Texts.                                                                  *)
(***************************************************************************)
Digits == <<"0", "1", "2", "3", "4", "5", "6", "7", "8", "9">>

IsDigit(c) == \E k \in 1..10 : Digits[k] = c

DigitVal(c) == (CHOOSE k \in 1..10 : Digits[k] = c) - 1

\* Python list membership, x in lst
In(x, lst) == \E k \in 1..Len(lst) : lst[k] = x

\* Python lst.remove(x): drops the first occurrence of x (x is in lst)
RemoveNothing(lst, x) == lst

Remove(lst, x) ==
    LET first == CHOOSE k \in 1..Len(lst) :
                     lst[k] = x /\ \A j \in 1..(k - 1) : lst[j] # x
    IN  SubSeq(lst, 1, first - 1) \o SubSeq(lst, first + 1, Len(lst))

\* int(text) succeeds on an optional sign followed by decimal digits
IsIntText(t) ==
    LET signed == Len(t) > 0 /\ t[1] \in {"-", "+"}
        body == IF signed THEN Tail(t) ELSE t
    IN  Len(body) > 0 /\ \A k \in 1..Len(body) : IsDigit(body[k])

RECURSIVE DecimalValue(_)
DecimalValue(ds) ==
    IF ds = <<>> THEN 0
    ELSE 10 * DecimalValue(SubSeq(ds, 1, Len(ds) - 1)) + DigitVal(ds[Len(ds)])

IntOf(t) ==
    IF t[1] = "-" THEN 0 - DecimalValue(Tail(t))
    ELSE IF t[1] = "+" THEN DecimalValue(Tail(t))
    ELSE DecimalValue(t)

(***************************************************************************)
(* price_conversion: re.sub("[^0-9]", "", price.split(".")[0])             *)
(***************************************************************************)
\* price.split(".")[0]: the part before the first "." (all of it without one)
SplitDotFirst(price) ==
    IF \E k \in 1..Len(price) : price[k] = "."
    THEN SubSeq(price, 1,
                (CHOOSE k \in 1..Len(price) :
                     price[k] = "." /\ \A j \in 1..(k - 1) : price[j] # ".") - 1)
    ELSE price

\* re.sub("[^0-9]", "", s): every character outside 0-9 is deleted
SubNonDigits(s) == SelectSeq(s, IsDigit)

PriceConversionWholeText(price) == SubNonDigits(price)

price_conversion(price) == SubNonDigits(SplitDotFirst(price))

(***************************************************************************)
(* create_stocks: the loop over the records consumes matched ids from the  *)
(* list it was given; int() of a text that is no integer raises ValueError *)
(* and ends the call with the list as consumed so far.                     *)
(***************************************************************************)
StockOf(count) ==
    IF count = <<">", "1", "0">> THEN 100
    ELSE IF count = <<"1">> THEN 0
    ELSE IntOf(count)

\* one pass of the loop body; st holds the stocks built so far, the list of
\* offer ids as consumed so far, and whether int() has raised
StocksStep(watch, st) ==
    IF st.raised \/ ~In(watch.code, st.offer_ids) THEN st
    ELSE IF watch.quantity \notin {<<">", "1", "0">>, <<"1">>}
            /\ ~IsIntText(watch.quantity)
    THEN [st EXCEPT !.raised = TRUE]
    ELSE [raised |-> FALSE,
          stocks |-> Append(st.stocks, [offer_id |-> watch.code,
                                        stock |-> StockOf(watch.quantity)]),
          offer_ids |-> Remove(st.offer_ids, watch.code)]

\* the loop over the records lo .. hi, in order (split in halves, so that
\* the evaluation stays shallow on a long file)
RECURSIVE StocksLoop(_, _, _, _)
StocksLoop(watch_remnants, lo, hi, st) ==
    IF lo > hi THEN st
    ELSE IF lo = hi THEN StocksStep(watch_remnants[lo], st)
    ELSE LET mid == (lo + hi) \div 2
             first == StocksLoop(watch_remnants, lo, mid, st)
         IN  IF first.raised THEN first
             ELSE StocksLoop(watch_remnants, mid + 1, hi, first)

\* the value returned (stocks), whether the call raised, and the caller's
\* list as the call leaves it
create_stocks(watch_remnants, offer_ids) ==
    LET loop == StocksLoop(watch_remnants, 1, Len(watch_remnants),
                           [raised |-> FALSE, stocks |-> <<>>,
                            offer_ids |-> offer_ids])
    IN  [raised |-> loop.raised,
         stocks |-> IF loop.raised THEN <<>>
                    ELSE loop.stocks \o
                         [k \in 1..Len(loop.offer_ids) |->
                             [offer_id |-> loop.offer_ids[k], stock |-> 0]],
         offer_ids |-> loop.offer_ids]

(***************************************************************************)
(* create_prices: one entry for every record whose code is in offer_ids,   *)
(* in the order of the records.                                            *)
(***************************************************************************)
PriceOf(watch) ==
    [auto_action_enabled |-> "UNKNOWN",
     currency_code |-> "RUB",
     offer_id |-> watch.code,
     old_price |-> "0",
     price |-> price_conversion(watch.price)]

MatchedAll(watch_remnants, offer_ids) == watch_remnants

Matched(watch_remnants, offer_ids) ==
    SelectSeq(watch_remnants, LAMBDA watch : In(watch.code, offer_ids))

create_prices(watch_remnants, offer_ids) ==
    LET matched == Matched(watch_remnants, offer_ids) IN
    [k \in 1..Len(matched) |-> PriceOf(matched[k])]

(***************************************************************************)
(* divide: for i in range(0, len(lst), n): yield lst[i : i + n]            *)
(***************************************************************************)
Min(a, b) == IF a < b THEN a ELSE b

\* Python lst[i : j] for 0 <= i <= j: the elements at 0-based i .. j - 1,
\* cut at the end of the list
SliceOneMore(lst, i, j) == SubSeq(lst, i + 1, Min(j + 1, Len(lst)))

Slice(lst, i, j) == SubSeq(lst, i + 1, Min(j, Len(lst)))

\* list(divide(lst, n)) from position i of the range on
RECURSIVE DivideFrom(_, _, _)
DivideFrom(lst, n, i) ==
    IF i >= Len(lst) THEN <<>>
    ELSE <<Slice(lst, i, i + n)>> \o DivideFrom(lst, n, i + n)

divide(lst, n) == DivideFrom(lst, n, 0)

(***************************************************************************)
(* Program constants.                                                      *)
(***************************************************************************)
PageLimit == 1000
StockBatch == 100
UploadStockBatch == 100
PriceBatch == 900
UploadPriceBatch == 1000
\* last_id = "": the cursor of the first request; a later cursor is the
\* number of catalogue items the server has handed out
EmptyLastId == 0

(***************************************************************************)
(* The marketplace's list endpoint, as get_product_list sees it: the next  *)
(* items after the cursor, at most limit of them, the total of the         *)
(* catalogue and the new cursor.                                           *)
(***************************************************************************)
get_product_list(items, last_id) ==
    LET upto == Min(last_id + PageLimit, Len(items)) IN
    [items |-> SubSeq(items, last_id + 1, upto),
     total |-> Len(items),
     last_id |-> upto]

OfferIdsOf(product_list) ==
    [k \in 1..Len(product_list) |-> product_list[k].offer_id]

(***************************************************************************)
(* download_stock once the GET has answered 2xx: the archive is opened and *)
(* extracted to the working directory, ostatki.xls is parsed, and only     *)
(* then removed.  file is ostatki.xls in the working directory.            *)
(***************************************************************************)
Absent == [exists |-> FALSE, readable |-> FALSE, rows |-> <<>>]

download_stock(archive, file) ==
    IF ~archive.valid
    THEN [raised |-> TRUE, exc |-> "BadZipFile", file |-> file,
          extracted |-> FALSE, watch_remnants |-> <<>>]
    ELSE LET ondisk == IF archive.has_sheet
                       THEN [exists |-> TRUE, readable |-> archive.readable,
                             rows |-> archive.rows]
                       ELSE file
         IN  IF ~ondisk.exists
             THEN [raised |-> TRUE, exc |-> "FileNotFoundError", file |-> ondisk,
                   extracted |-> archive.has_sheet, watch_remnants |-> <<>>]
             ELSE IF ~ondisk.readable
             THEN [raised |-> TRUE, exc |-> "ParseError", file |-> ondisk,
                   extracted |-> archive.has_sheet, watch_remnants |-> <<>>]
             ELSE [raised |-> FALSE, exc |-> "", file |-> Absent,
                   extracted |-> archive.has_sheet,
                   watch_remnants |-> ondisk.rows]

(***************************************************************************)
(* main's except clauses, by the message each prints:                      *)
(* ReadTimeout, ConnectionError, then every other Exception.               *)
(***************************************************************************)
ExceptClauseNoCatchAll(exc) ==
    CASE exc = "ReadTimeout" -> "timeout"
      [] exc = "ConnectionError" -> "connection"
      [] OTHER -> "uncaught"

ExceptClause(exc) ==
    CASE exc = "ReadTimeout" -> "timeout"
      [] exc = "ConnectionError" -> "connection"
      [] OTHER -> "ERROR_2"

(***************************************************************************)
(* State.                                                                  *)
(***************************************************************************)
VARIABLES
    entry,          \* the function that was called
    pc,             \* where that call stands
    catalog,        \* the marketplace's items, in server order
    archive,        \* what the vendor's URL serves
    file,           \* ostatki.xls in the working directory
    last_id,        \* get_offer_ids: cursor of the next request
    product_list,   \* get_offer_ids: items accumulated
    offer_ids,      \* the caller's list of offer ids
    watch_remnants, \* the inventory records
    stocks,         \* create_stocks' result
    prices,         \* create_prices' result
    todo,           \* batches of list(divide(...)) not yet pushed
    calls,          \* every network call issued, in order, with its outcome
    output,         \* messages printed
    returned,       \* the value returned
    listed,         \* history: offer_ids as the caller first held it
    extracted,      \* history: download_stock put ostatki.xls on disk
    lst, n, i, chunks,  \* divide(lst, n) as a generator: position, chunks yielded
    price, cleaned  \* price_conversion(price) and its result

vars == <<entry, pc, catalog, archive, file, last_id, product_list, offer_ids,
          watch_remnants, stocks, prices, todo, calls, output, returned,
          listed, extracted, lst, n, i, chunks, price, cleaned>>

pipeVars == <<entry, pc, catalog, archive, file, last_id, product_list,
              offer_ids, watch_remnants, stocks, prices, todo, calls, output,
              returned, listed, extracted>>
divideVars == <<lst, n, i, chunks>>
priceVars == <<price, cleaned>>

(***************************************************************************)
(* Inputs.                                                                 *)
(***************************************************************************)
SeqsUpTo(S, k) == UNION {[1..m -> S] : m \in 0..k}

Ids == {"A", "B", "C"}
Codes == {"A", "B", "Z"}

Gt10 == <<">", "1", "0">>
PriceText == <<"1", "'", "2", "3", "4", ".", "0", "0", " ", "x">>

\* quantity cells: ">10", "1", "7", "-5" and a blank cell
Quantities == {Gt10, <<"1">>, <<"7">>, <<"-", "5">>, <<>>}

Records == [code : Codes, quantity : Quantities, price : {PriceText}]

\* the rows of the inventory files of the end-to-end runs
Rows == [code : Codes, quantity : {Gt10, <<>>}, price : {PriceText}]

\* an inventory file long enough for two batches of prices
BulkSheet ==
    [k \in 1..(UploadPriceBatch + 1) |->
        [code |-> "A", quantity |-> Gt10, price |-> PriceText]]

Sheets == SeqsUpTo(Rows, MaxRecords) \cup {BulkSheet}

\* a catalogue of T items with distinct offer ids: "A", "B", "3", "4", ...
ItemId(k) == IF k = 1 THEN "A" ELSE IF k = 2 THEN "B" ELSE ToString(k)

Numbered(T) == [k \in 1..T |-> [offer_id |-> ItemId(k)]]

ItemsOf(ids) == [k \in 1..Len(ids) |-> [offer_id |-> ids[k]]]

\* sizes around every multiple of size, up to count multiples
SizesAround(size, count) ==
    {t \in {size * p + d : p \in 0..count, d \in {-1, 0, 1}} : t >= 0}

Catalogs ==
    {ItemsOf(ids) : ids \in SeqsUpTo(Ids, MaxOffers)}
        \cup {Numbered(T) : T \in {StockBatch + 1, 2 * StockBatch, PageLimit + 1}}

NoArchive == [valid |-> FALSE, has_sheet |-> FALSE, readable |-> FALSE, rows |-> <<>>]

Archives ==
    {NoArchive,
     [valid |-> TRUE, has_sheet |-> FALSE, readable |-> FALSE, rows |-> <<>>],
     [valid |-> TRUE, has_sheet |-> TRUE, readable |-> FALSE, rows |-> <<>>]}
        \cup {[valid |-> TRUE, has_sheet |-> TRUE, readable |-> TRUE, rows |-> R] :
                R \in Sheets}

\* a network call answers, or fails with one of these
Outcomes == {"ok", "ReadTimeout", "ConnectionError", "HTTPError"}

DivideIdle == lst = <<>> /\ n = 1 /\ i = 0 /\ chunks = <<>>
PriceIdle == price = <<>> /\ cleaned = <<>>

PipeStart(e, at, items, arch, ids, rows) ==
    /\ entry = e
    /\ pc = at
    /\ catalog = items
    /\ archive = arch
    /\ file = Absent
    /\ last_id = EmptyLastId
    /\ product_list = <<>>
    /\ offer_ids = ids
    /\ watch_remnants = rows
    /\ stocks = <<>>
    /\ prices = <<>>
    /\ todo = <<>>
    /\ calls = <<>>
    /\ output = <<>>
    /\ returned = <<>>
    /\ listed = ids
    /\ extracted = FALSE

(***************************************************************************)
(* The end-to-end runs: main, upload_stocks and upload_prices.  The rows an *)
(* upload function is given are its caller's.                              *)
(***************************************************************************)
InitPipeline ==
    /\ \E items \in Catalogs :
          \/ \E arch \in Archives :
                PipeStart("main", "get_offer_ids", items, arch, <<>>, <<>>)
          \/ \E e \in {"upload_stocks", "upload_prices"}, rows \in Sheets :
                PipeStart(e, "get_offer_ids", items, NoArchive, <<>>, rows)
    /\ DivideIdle
    /\ PriceIdle

\* an exception leaves the function: main's try catches it and prints one
\* message, the other functions let it propagate
Raise(exc) ==
    IF entry = "main" /\ ExceptClause(exc) # "uncaught"
    THEN pc' = "done" /\ output' = Append(output, ExceptClause(exc))
    ELSE pc' = "raised" /\ output' = output

Call(api, body, outcome) ==
    calls' = Append(calls, [api |-> api, body |-> body, outcome |-> outcome])

\* where the call goes on once get_offer_ids has returned
AfterOfferIds ==
    CASE entry = "main" -> "download_stock"
      [] entry = "upload_stocks" -> "create_stocks"
      [] entry = "upload_prices" -> "create_prices"
      [] OTHER -> "returned"

\* get_offer_ids, one pass of its loop: one request, then the test
LoopEndsOnShortPage(total, product_list_now) ==
    Len(product_list_now) % PageLimit # 0

LoopEnds(total, product_list_now) == total = Len(product_list_now)

GetProductList ==
    /\ pc = "get_offer_ids"
    /\ \E outcome \in Outcomes :
          /\ Call("list", <<last_id>>, outcome)
          /\ IF outcome # "ok"
             THEN /\ Raise(outcome)
                  /\ UNCHANGED <<last_id, product_list, offer_ids, listed,
                                 returned>>
             ELSE LET some_prod == get_product_list(catalog, last_id)
                      extended == product_list \o some_prod.items
                  IN  /\ product_list' = extended
                      /\ last_id' = some_prod.last_id
                      /\ IF LoopEnds(some_prod.total, extended)
                         THEN /\ offer_ids' = OfferIdsOf(extended)
                              /\ listed' = OfferIdsOf(extended)
                              /\ pc' = AfterOfferIds
                              /\ returned' = IF entry = "get_offer_ids"
                                             THEN OfferIdsOf(extended)
                                             ELSE returned
                         ELSE UNCHANGED <<offer_ids, listed, pc, returned>>
                      /\ output' = output
    /\ UNCHANGED <<entry, catalog, archive, file, watch_remnants, stocks, prices,
                   todo, extracted, divideVars, priceVars>>

\* main: watch_remnants = download_stock()
DownloadStock ==
    /\ pc = "download_stock"
    /\ \E outcome \in Outcomes :
          /\ Call("download", <<>>, outcome)
          /\ IF outcome # "ok"
             THEN /\ Raise(outcome)
                  /\ UNCHANGED <<file, extracted, watch_remnants>>
             ELSE LET d == download_stock(archive, file) IN
                  /\ file' = d.file
                  /\ extracted' = d.extracted
                  /\ IF d.raised
                     THEN Raise(d.exc) /\ UNCHANGED watch_remnants
                     ELSE /\ watch_remnants' = d.watch_remnants
                          /\ pc' = "create_stocks"
                          /\ output' = output
    /\ UNCHANGED <<entry, catalog, archive, last_id, product_list, offer_ids,
                   stocks, prices, todo, returned, listed, divideVars, priceVars>>

StockBatchOf(e) == IF e = "main" THEN StockBatch ELSE UploadStockBatch

PriceBatchOf(e) == IF e = "main" THEN PriceBatch ELSE UploadPriceBatch

\* upload_stocks: list(filter(lambda stock: stock.get("stock") != 0, stocks))
NotEmpty(ss) == SelectSeq(ss, LAMBDA stock : stock.stock # 0)

\* the stock batches are all pushed: main goes on to the prices,
\* upload_stocks returns (not_empty, stocks)
StocksPushed(ss) ==
    IF entry = "main"
    THEN pc' = "create_prices" /\ returned' = returned
    ELSE pc' = "returned" /\ returned' = <<NotEmpty(ss), ss>>

\* the price batches are all pushed: main ends, upload_prices returns prices
PricesPushed(ps) ==
    IF entry = "main"
    THEN pc' = "done" /\ returned' = returned
    ELSE pc' = "returned" /\ returned' = ps

\* stocks = create_stocks(watch_remnants, offer_ids), and the batches of
\* list(divide(stocks, 100))
CreateStocks ==
    /\ pc = "create_stocks"
    /\ LET r == create_stocks(watch_remnants, offer_ids) IN
          /\ offer_ids' = r.offer_ids
          /\ IF r.raised
             THEN /\ Raise("ValueError")
                  /\ UNCHANGED <<stocks, todo, returned>>
             ELSE /\ stocks' = r.stocks
                  /\ todo' = divide(r.stocks, StockBatchOf(entry))
                  /\ output' = output
                  /\ IF todo' = <<>>
                     THEN StocksPushed(r.stocks)
                     ELSE pc' = "update_stocks" /\ returned' = returned
    /\ UNCHANGED <<entry, catalog, archive, file, last_id, product_list,
                   watch_remnants, prices, calls, listed, extracted,
                   divideVars, priceVars>>

\* update_stocks(some_stock, ...) for the next batch
UpdateStocks ==
    /\ pc = "update_stocks"
    /\ \E outcome \in Outcomes :
          /\ Call("stocks", Head(todo), outcome)
          /\ IF outcome # "ok"
             THEN Raise(outcome) /\ UNCHANGED <<todo, returned>>
             ELSE /\ todo' = Tail(todo)
                  /\ output' = output
                  /\ IF todo' = <<>>
                     THEN StocksPushed(stocks)
                     ELSE pc' = pc /\ returned' = returned
    /\ UNCHANGED <<entry, catalog, archive, file, last_id, product_list,
                   offer_ids, watch_remnants, stocks, prices, listed, extracted,
                   divideVars, priceVars>>

\* prices = create_prices(watch_remnants, offer_ids), and the batches of
\* list(divide(prices, 900)) (main) or list(divide(prices, 1000))
CreatePrices ==
    /\ pc = "create_prices"
    /\ prices' = create_prices(watch_remnants, offer_ids)
    /\ todo' = divide(prices', PriceBatchOf(entry))
    /\ IF todo' = <<>>
       THEN PricesPushed(prices')
       ELSE pc' = "update_price" /\ returned' = returned
    /\ UNCHANGED <<entry, catalog, archive, file, last_id, product_list,
                   offer_ids, watch_remnants, stocks, calls, output, listed,
                   extracted, divideVars, priceVars>>

\* update_price(some_price, ...) for the next batch
UpdatePrice ==
    /\ pc = "update_price"
    /\ \E outcome \in Outcomes :
          /\ Call("prices", Head(todo), outcome)
          /\ IF outcome # "ok"
             THEN Raise(outcome) /\ UNCHANGED <<todo, returned>>
             ELSE /\ todo' = Tail(todo)
                  /\ output' = output
                  /\ IF todo' = <<>>
                     THEN PricesPushed(prices)
                     ELSE pc' = pc /\ returned' = returned
    /\ UNCHANGED <<entry, catalog, archive, file, last_id, product_list,
                   offer_ids, watch_remnants, stocks, prices, listed, extracted,
                   divideVars, priceVars>>

(***************************************************************************)
(* divide as the generator it is: every next() yields one chunk.           *)
(* Its inputs are every short list with every small n, and lists of stock  *)
(* updates of around 0, 1, 2, ... batches with the batch size of main.     *)
(***************************************************************************)
StocksOfSize(L) == create_stocks(<<>>, OfferIdsOf(Numbered(L))).stocks

InitDivide ==
    /\ PipeStart("divide", "iterating", <<>>, NoArchive, <<>>, <<>>)
    /\ \/ lst \in SeqsUpTo(Ids, MaxLen) /\ n \in 1..MaxChunk
       \/ /\ lst \in {StocksOfSize(L) : L \in SizesAround(StockBatch, MaxBatches)}
          /\ n = StockBatch
    /\ i = 0
    /\ chunks = <<>>
    /\ PriceIdle

\* range(0, len(lst), n) has a next value: yield lst[i : i + n]
DivideYield ==
    /\ pc = "iterating"
    /\ i < Len(lst)
    /\ chunks' = Append(chunks, Slice(lst, i, i + n))
    /\ i' = i + n
    /\ UNCHANGED <<lst, n, pipeVars, priceVars>>

\* the range is used up: the generator ends
DivideStop ==
    /\ pc = "iterating"
    /\ i >= Len(lst)
    /\ pc' = "exhausted"
    /\ UNCHANGED <<entry, catalog, archive, file, last_id, product_list,
                   offer_ids, watch_remnants, stocks, prices, todo, calls,
                   output, returned, listed, extracted, divideVars, priceVars>>

Init == InitPipeline \/ InitDivide

Next ==
    \/ GetProductList
    \/ DownloadStock
    \/ CreateStocks
    \/ UpdateStocks
    \/ CreatePrices
    \/ UpdatePrice
    \/ DivideYield
    \/ DivideStop

Spec == Init /\ [][Next]_vars

(***************************************************************************)
(* get_offer_ids alone, against catalogues of around 0, 1, 2, ... pages.   *)
(***************************************************************************)
PagedCatalogs ==
    {ItemsOf(ids) : ids \in SeqsUpTo(Ids, MaxOffers)}
        \cup {Numbered(T) : T \in SizesAround(PageLimit, MaxPages)}

InitPages ==
    /\ \E items \in PagedCatalogs :
          PipeStart("get_offer_ids", "get_offer_ids", items, NoArchive, <<>>, <<>>)
    /\ DivideIdle
    /\ PriceIdle

SpecPages == InitPages /\ [][GetProductList]_vars

(***************************************************************************)
(* create_stocks and create_prices alone, on every short list of offer ids *)
(* and every short list of records.                                        *)
(***************************************************************************)
InitDelta ==
    /\ \E e \in {"create_stocks", "create_prices"},
          ids \in SeqsUpTo(Ids, MaxOffers),
          rows \in SeqsUpTo(Records, MaxRecords) :
          PipeStart(e, "call", <<>>, NoArchive, ids, rows)
    /\ DivideIdle
    /\ PriceIdle

CallCreateStocks ==
    /\ entry = "create_stocks"
    /\ pc = "call"
    /\ LET r == create_stocks(watch_remnants, offer_ids) IN
          /\ offer_ids' = r.offer_ids
          /\ IF r.raised
             THEN pc' = "raised" /\ UNCHANGED <<stocks, returned>>
             ELSE pc' = "returned" /\ stocks' = r.stocks /\ returned' = r.stocks
    /\ UNCHANGED <<entry, catalog, archive, file, last_id, product_list,
                   watch_remnants, prices, todo, calls, output, listed,
                   extracted, divideVars, priceVars>>

CallCreatePrices ==
    /\ entry = "create_prices"
    /\ pc = "call"
    /\ prices' = create_prices(watch_remnants, offer_ids)
    /\ returned' = prices'
    /\ pc' = "returned"
    /\ UNCHANGED <<entry, catalog, archive, file, last_id, product_list,
                   offer_ids, watch_remnants, stocks, todo, calls, output,
                   listed, extracted, divideVars, priceVars>>

NextDelta == CallCreateStocks \/ CallCreatePrices

SpecDelta == InitDelta /\ [][NextDelta]_vars

(***************************************************************************)
(* price_conversion alone, on every short text over these characters and   *)
(* on the documented examples.                                             *)
(***************************************************************************)
Chars == {"5", "9", "0", "'", ".", " ", "x"}

\* "5'990.00 " followed by a three-letter currency and "."
Example5990 ==
    <<"5", "'", "9", "9", "0", ".", "0", "0", " ", "r", "u", "b", ".">>

Example100 == <<"1", "0", "0", ".", "0", "0">>

InitPrice ==
    /\ PipeStart("price_conversion", "call", <<>>, NoArchive, <<>>, <<>>)
    /\ DivideIdle
    /\ price \in SeqsUpTo(Chars, MaxText) \cup {Example5990, Example100, PriceText}
    /\ cleaned = <<>>

CallPriceConversion ==
    /\ pc = "call"
    /\ cleaned' = price_conversion(price)
    /\ pc' = "returned"
    /\ UNCHANGED <<entry, catalog, archive, file, last_id, product_list,
                   offer_ids, watch_remnants, stocks, prices, todo, calls,
                   output, returned, listed, extracted, divideVars, price>>

SpecPrice == InitPrice /\ [][CallPriceConversion]_vars

(***************************************************************************)
(* The properties.                                                         *)
(***************************************************************************)
NoDuplicates(ids) ==
    \A j, k \in 1..Len(ids) : ids[j] = ids[k] => j = k

\* the positions of the entries of updates that carry offer id id
EntriesOf(updates, id) == {k \in 1..Len(updates) : updates[k].offer_id = id}

\* the positions of the records whose code is one of ids
RecordsIn(rows, ids) == {k \in 1..Len(rows) : In(rows[k].code, ids)}

QuantityReadable(q) == q = Gt10 \/ q = <<"1">> \/ IsIntText(q)

RECURSIVE Flatten(_)
Flatten(parts) ==
    IF parts = <<>> THEN <<>> ELSE Head(parts) \o Flatten(Tail(parts))

BodiesOf(api) ==
    LET those == SelectSeq(calls, LAMBDA c : c.api = api) IN
    [k \in 1..Len(those) |-> those[k].body]

IsPrefix(a, b) == Len(a) <= Len(b) /\ a = SubSeq(b, 1, Len(a))

Failed == \E k \in 1..Len(calls) : calls[k].outcome # "ok"

\* C1: for a duplicate-free list of offer ids and records whose quantities
\* under a known code are ">10", "1" or integer text, create_stocks returns,
\* and returns exactly len(O) stock updates, each id of O the offer_id of
\* exactly one of them.
C1_StocksCoverOffersOnce ==
    (entry = "create_stocks" /\ pc # "call" /\ NoDuplicates(listed)
        /\ \A k \in RecordsIn(watch_remnants, listed) :
              QuantityReadable(watch_remnants[k].quantity))
    => /\ pc = "returned"
       /\ Len(returned) = Len(listed)
       /\ \A k \in 1..Len(listed) :
             Cardinality(EntriesOf(returned, listed[k])) = 1

\* C1's case: two offer ids, two records with the same known code
C1_Witness ==
    /\ entry = "create_stocks"
    /\ pc = "returned"
    /\ NoDuplicates(listed)
    /\ Len(listed) = 2
    /\ Len(watch_remnants) = 2
    /\ watch_remnants[1].code = watch_remnants[2].code
    /\ In(watch_remnants[1].code, listed)

\* C3 as claimed: create_stocks leaves the caller's list of offer ids as it was.
C3_CallerListUnchanged ==
    (entry = "create_stocks" /\ pc = "returned") => offer_ids = listed

\* C8 as claimed: a matched record's stock is 100 for ">10", 0 for "1" and
\* the integer of the text otherwise, an unmatched offer id gets stock 0, and
\* every stock produced is a non-negative integer.
C8_StockValues ==
    (entry = "create_stocks" /\ pc = "returned" /\ NoDuplicates(listed))
    => /\ \A k \in 1..Len(returned) :
             LET id == returned[k].offer_id
                 rows == RecordsIn(watch_remnants, <<id>>)
                 q == watch_remnants[CHOOSE j \in rows :
                                         \A m \in rows : j <= m].quantity
             IN  returned[k].stock =
                     IF rows = {} THEN 0
                     ELSE IF q = Gt10 THEN 100
                     ELSE IF q = <<"1">> THEN 0
                     ELSE IntOf(q)
       /\ \A k \in 1..Len(returned) : returned[k].stock \in Nat

\* C9: every entry of create_prices(R, O) carries an offer id that is in O
\* and is the code of a record of R, with old_price "0", currency_code "RUB"
\* and auto_action_enabled "UNKNOWN"; there are at most as many entries as
\* records whose code is in O; O is left unchanged.
C9_PricesWithinOffersAndRecords ==
    (entry = "create_prices" /\ pc = "returned")
    => /\ \A k \in 1..Len(returned) :
             /\ In(returned[k].offer_id, listed)
             /\ \E j \in 1..Len(watch_remnants) :
                   watch_remnants[j].code = returned[k].offer_id
             /\ returned[k].old_price = "0"
             /\ returned[k].currency_code = "RUB"
             /\ returned[k].auto_action_enabled = "UNKNOWN"
       /\ Len(returned) <= Cardinality(RecordsIn(watch_remnants, listed))
       /\ offer_ids = listed

\* C9's case: an entry is produced, one offer id has no record, and one
\* record has a code that is no offer id
C9_Witness ==
    /\ entry = "create_prices"
    /\ pc = "returned"
    /\ Len(returned) = 1
    /\ Len(listed) = 2
    /\ \E k \in 1..2 : RecordsIn(watch_remnants, <<listed[k]>>) = {}
    /\ Len(watch_remnants) = 2
    /\ \E j \in 1..2 : ~In(watch_remnants[j].code, listed)

\* the positions of raw before its first "." that hold a digit
DigitPositions(raw) ==
    {k \in 1..Len(raw) : IsDigit(raw[k]) /\ \A j \in 1..k : raw[j] # "."}

\* C10: price_conversion(raw) is exactly the digits of the part of raw
\* before its first ".", in their order: as many characters as there are
\* digit positions, the digit at each position standing at its rank; the
\* documented examples give "5990" and "100"; no digit gives "".
C10_DigitsBeforeFirstDot ==
    (entry = "price_conversion" /\ pc = "returned")
    => LET at == DigitPositions(price) IN
       /\ Len(cleaned) = Cardinality(at)
       /\ \A k \in at :
             cleaned[Cardinality({j \in at : j <= k})] = price[k]
       /\ (price = Example5990 => cleaned = <<"5", "9", "9", "0">>)
       /\ (price = Example100 => cleaned = <<"1", "0", "0">>)
       /\ (at = {} => cleaned = <<>>)

\* C10's case: the documented example, with a separator, two "." and letters
C10_Witness ==
    /\ entry = "price_conversion"
    /\ pc = "returned"
    /\ price = Example5990
    /\ cleaned = <<"5", "9", "9", "0">>

\* C5: against a catalogue of T items, get_offer_ids makes at most
\* T \div 1000 + 1 requests, the first with last_id = "" and each later one
\* with the last_id of the response before; only the last request can have
\* failed; the loop goes on exactly while fewer than T items are accumulated
\* and the function returns the T offer ids, each once, in server order.
C5_PaginationStopsAtTotal ==
    entry = "get_offer_ids"
    => LET T == Len(catalog) IN
       /\ Len(calls) <= T \div PageLimit + 1
       /\ \A k \in 1..Len(calls) :
             /\ calls[k].api = "list"
             /\ calls[k].body =
                   IF k = 1 THEN <<EmptyLastId>>
                   ELSE <<get_product_list(catalog, calls[k - 1].body[1]).last_id>>
             /\ k < Len(calls) => calls[k].outcome = "ok"
       /\ (pc = "get_offer_ids" /\ calls # <<>>) => Len(product_list) < T
       /\ pc = "returned"
             => /\ Len(product_list) = T
                /\ Len(returned) = T
                /\ \A k \in 1..T : returned[k] = catalog[k].offer_id
       /\ pc \in {"get_offer_ids", "returned", "raised"}
       /\ pc = "get_offer_ids" => ENABLED GetProductList
       /\ pc = "raised" <=> Failed

\* C5's case: a catalogue of exactly two full pages, read in two requests
C5_Witness ==
    /\ entry = "get_offer_ids"
    /\ pc = "returned"
    /\ Len(catalog) = 2 * PageLimit
    /\ Len(calls) = 2
    /\ Len(returned) = 2 * PageLimit

\* C7: divide(lst, n) for n >= 1 yields chunks that are non-empty and no
\* longer than n, all of length n but possibly the last, whose concatenation
\* in order is lst (so none for the empty list); and in main and
\* upload_stocks every update_stocks call carries between 1 and 100 stock
\* updates, the calls together carrying the stock updates once each, in
\* order: all of them once the last batch is pushed.
C7_ChunksPartitionInOrder ==
    /\ entry = "divide"
       => /\ \A k \in 1..Len(chunks) :
                /\ Len(chunks[k]) >= 1
                /\ Len(chunks[k]) <= n
                /\ k < Len(chunks) => Len(chunks[k]) = n
          /\ Flatten(chunks) = SubSeq(lst, 1, Min(i, Len(lst)))
          /\ pc = "exhausted"
                => /\ Flatten(chunks) = lst
                   /\ chunks = divide(lst, n)
                   /\ (lst = <<>> => chunks = <<>>)
                   /\ (lst = <<"A", "B", "C", "A", "B">> /\ n = 2
                          => chunks = << <<"A", "B">>, <<"C", "A">>, <<"B">> >>)
    /\ entry \in {"main", "upload_stocks"}
       => LET sent == BodiesOf("stocks") IN
          /\ \A k \in 1..Len(sent) :
                Len(sent[k]) >= 1 /\ Len(sent[k]) <= 100
          /\ IsPrefix(Flatten(sent), stocks)
          /\ (pc \in {"create_prices", "update_price", "returned"}
                 \/ (pc = "done" /\ output = <<>>))
                => Flatten(sent) = stocks

\* C7's case: 201 stock updates leave the generator as chunks of 100, 100, 1
C7_Witness ==
    /\ entry = "divide"
    /\ pc = "exhausted"
    /\ n = 100
    /\ Len(lst) = 201
    /\ Len(chunks) = 3
    /\ Len(chunks[3]) = 1

Phase(api) ==
    CASE api = "list" -> 1
      [] api = "download" -> 2
      [] api = "stocks" -> 3
      [] api = "prices" -> 4

\* C6: in main the network calls come in the order listing, download, stock
\* batches, price batches, with one download at most; a failed call is the
\* last call of the run (nothing is issued after it: no later step, no
\* retry, no rollback), main then has ended with exactly one message
\* printed; main never lets an exception out and takes no step once ended.
C6_CallsInOrderAndStopAtFailure ==
    entry = "main"
    => /\ \A j, k \in 1..Len(calls) :
             j < k => /\ Phase(calls[j].api) <= Phase(calls[k].api)
                      /\ calls[j].outcome = "ok"
                      /\ calls[j].api # "download"
                            \/ calls[k].api # "download"
       /\ Failed => pc = "done" /\ Len(output) = 1
       /\ Len(output) <= 1
       /\ pc # "raised"
       /\ pc = "done" => ~ENABLED Next
       /\ pc \in {"update_stocks", "create_prices", "update_price"}
             => \E k \in 1..Len(calls) : calls[k].api = "download"

\* C6's case: a stock batch was pushed, then a price push failed
C6_Witness ==
    /\ entry = "main"
    /\ pc = "done"
    /\ Len(output) = 1
    /\ \E k \in 1..Len(calls) : calls[k].api = "stocks" /\ calls[k].outcome = "ok"
    /\ calls[Len(calls)].api = "prices"
    /\ calls[Len(calls)].outcome = "HTTPError"

\* C2 as claimed: a run of main that ends without a failure has pushed one
\* price update for every record whose code is a catalogue offer id, with
\* the formatted price of the record.
C2_PricesPushedForListedRecords ==
    (entry = "main" /\ pc = "done" /\ output = <<>>)
    => LET sent == Flatten(BodiesOf("prices")) IN
       /\ Len(sent) = Cardinality(RecordsIn(watch_remnants, listed))
       /\ \A k \in RecordsIn(watch_remnants, listed) :
             \E j \in 1..Len(sent) :
                sent[j] = [auto_action_enabled |-> "UNKNOWN",
                           currency_code |-> "RUB",
                           offer_id |-> watch_remnants[k].code,
                           old_price |-> "0",
                           price |-> price_conversion(watch_remnants[k].price)]

\* C4 as claimed: once download_stock has extracted ostatki.xls, the file is
\* gone when download_stock has ended, however it ended.
C4_ExtractedFileRemoved ==
    (entry = "main" /\ pc # "download_stock" /\ extracted) => ~file.exists

=============================================================================
